---- MODULE Spec2Model ----
(***************************************************************************)
(* Model of the EOD section extractor of Task_List (src/eod_extractor.py): *)
(* EODExtractor.extract_eod_section and EODExtractor._parse_eod_tasks.     *)
(*                                                                         *)
(* A Python str is modelled as a sequence of one-character strings; the    *)
(* character U+2022 (the round bullet) is written "u2022".  None is the    *)
(* empty tuple and a present optional value x is the one-element tuple     *)
(* <<x>>.                                                                  *)
(***************************************************************************)
EXTENDS Integers, Sequences, FiniteSets, TLC

VARIABLES config, email_body, result, eod_content, tasks, calls, appended, pc

vars == <<config, email_body, result, eod_content, tasks, calls, appended, pc>>

None == <<>>

Some(x) == <<x>>

(***************************************************************************)
(* Characters and the str methods the extractor uses.                      *)
(***************************************************************************)
BULLET == "u2022"

NL == "\n"

Whitespace == {" ", "\t", "\n", "\r"}

Digits == {"0", "1", "2", "3", "4", "5", "6", "7", "8", "9"}

UpperLetters ==
    <<"A", "B", "C", "D", "E", "F", "G", "H", "I", "J", "K", "L", "M",
      "N", "O", "P", "Q", "R", "S", "T", "U", "V", "W", "X", "Y", "Z">>

LowerLetters ==
    <<"a", "b", "c", "d", "e", "f", "g", "h", "i", "j", "k", "l", "m",
      "n", "o", "p", "q", "r", "s", "t", "u", "v", "w", "x", "y", "z">>

Range(s) == {s[i] : i \in DOMAIN s}

UpperSet == Range(UpperLetters)

LowerSet == Range(LowerLetters)

LowerOf == [c \in UpperSet |-> LowerLetters[CHOOSE i \in DOMAIN UpperLetters : UpperLetters[i] = c]]

\* the case folding of re.IGNORECASE
ToLower(c) == IF c \in UpperSet THEN LowerOf[c] ELSE c

\* str.isalnum on one character
IsAlnum(c) == c \in Digits \/ c \in UpperSet \/ c \in LowerSet

\* s[a-1:b] of Python for 1-based inclusive bounds, empty when a > b
Slice(s, a, b) == IF a > b THEN <<>> ELSE SubSeq(s, a, b)

\* a literal of an re alternation matched at position i (1-based) under re.IGNORECASE
MatchesAtCI(s, i, lit) ==
    /\ i >= 1
    /\ i + Len(lit) - 1 <= Len(s)
    /\ \A j \in 1..Len(lit) : ToLower(s[i + j - 1]) = ToLower(lit[j])

\* str.startswith
startswith(s, lit) ==
    /\ Len(lit) <= Len(s)
    /\ \A j \in 1..Len(lit) : s[j] = lit[j]

RECURSIVE lstrip(_, _)
\* str.lstrip(chars)
lstrip(s, chars) ==
    IF s /= <<>> /\ Head(s) \in chars THEN lstrip(Tail(s), chars) ELSE s

RECURSIVE rstrip(_, _)
\* str.rstrip(chars)
rstrip(s, chars) ==
    IF s /= <<>> /\ s[Len(s)] \in chars
    THEN rstrip(SubSeq(s, 1, Len(s) - 1), chars)
    ELSE s

\* str.strip() with no argument
strip(s) == rstrip(lstrip(s, Whitespace), Whitespace)

\* a left-to-right scan: the first of the positions S, 0 when there is none
Leftmost(S) == IF S = {} THEN 0 ELSE CHOOSE i \in S : \A k \in S : i <= k

RECURSIVE SplitFrom(_, _)
SplitFrom(s, i) ==
    LET j == Leftmost({k \in i..Len(s) : s[k] = NL})
    IN  IF j = 0 THEN <<Slice(s, i, Len(s))>>
        ELSE <<Slice(s, i, j - 1)>> \o SplitFrom(s, j + 1)

\* str.split('\n')
split(s) == SplitFrom(s, 1)

(***************************************************************************)
(* The time patterns of the configuration.  Each configured fragment has   *)
(* the shape  \d+ (sep \d+)? \s* unit opt?  and is held as the record      *)
(* [sep, unit, opt]; an empty sep or opt means the part is not there.      *)
(***************************************************************************)
RECURSIVE RunEnd(_, _, _)
\* the index just past the longest run of characters of cls that starts at i
RunEnd(s, i, cls) ==
    IF i <= Len(s) /\ s[i] \in cls THEN RunEnd(s, i + 1, cls) ELSE i

\* one alternative of time_regex tried at position i: the index just past the
\* match, or 0 when the alternative does not match at i
PatternMatchEnd(s, i, pat) ==
    LET d1 == RunEnd(s, i, Digits)
        d2 == RunEnd(s, d1 + Len(pat.sep), Digits)
        numEnd == IF pat.sep = <<>> THEN d1
                  ELSE IF MatchesAtCI(s, d1, pat.sep) /\ d2 > d1 + Len(pat.sep) THEN d2
                  ELSE 0
        w == RunEnd(s, numEnd, Whitespace)
        u == w + Len(pat.unit)
    IN  IF d1 = i \/ numEnd = 0 THEN 0
        ELSE IF ~MatchesAtCI(s, w, pat.unit) THEN 0
        ELSE IF pat.opt /= <<>> /\ MatchesAtCI(s, u, pat.opt) THEN u + Len(pat.opt)
        ELSE u

RECURSIVE FirstPattern(_, _, _, _)
\* the alternation '(p1)|(p2)|...' at position i: the first alternative, in the
\* order of the list, that matches there (0 when none does)
FirstPattern(s, i, time_patterns, p) ==
    IF p > Len(time_patterns) THEN 0
    ELSE IF PatternMatchEnd(s, i, time_patterns[p]) > 0 THEN p
    ELSE FirstPattern(s, i, time_patterns, p + 1)

RECURSIVE PatternMajorSearch(_, _, _)
PatternMajorSearch(s, time_patterns, p) ==
    IF p > Len(time_patterns) THEN None
    ELSE LET i == Leftmost({k \in 1..Len(s) : PatternMatchEnd(s, k, time_patterns[p]) > 0})
         IN  IF i > 0
             THEN Some([start |-> i, end |-> PatternMatchEnd(s, i, time_patterns[p])])
             ELSE PatternMajorSearch(s, time_patterns, p + 1)

\* a slip of lines 209-210 and 228: the patterns are searched one after the
\* other and the first pattern that matches anywhere wins
time_regex_search_PatternMajor(clean_line, time_patterns) ==
    PatternMajorSearch(clean_line, time_patterns, 1)

\* time_regex.search(clean_line): the positions are tried from the left and the
\* first one where an alternative matches wins; start is the 1-based index of
\* the first matched character, end the index just past the last one
time_regex_search(clean_line, time_patterns) ==
    LET i == Leftmost({k \in 1..Len(clean_line) :
                          FirstPattern(clean_line, k, time_patterns, 1) > 0})
    IN  IF i = 0 THEN None
        ELSE Some([start |-> i,
                   end |-> PatternMatchEnd(clean_line, i,
                               time_patterns[FirstPattern(clean_line, i, time_patterns, 1)])])

(***************************************************************************)
(* EODExtractor._parse_eod_tasks                                           *)
(***************************************************************************)
MinLineLen == 5

PrefixLen == 10

BulletChars == {"-", BULLET, "*"}

Separators == {"-", ":"}

Min(a, b) == IF a < b THEN a ELSE b

\* lines = [line.strip() for line in eod_content.split('\n') if line.strip()]
RECURSIVE StripNonEmpty(_)
StripNonEmpty(raw) ==
    IF raw = <<>> THEN <<>>
    ELSE IF strip(Head(raw)) /= <<>> THEN <<strip(Head(raw))>> \o StripNonEmpty(Tail(raw))
    ELSE StripNonEmpty(Tail(raw))

StrippedLines(content) == StripNonEmpty(split(content))

\* re.match(r'^\d+\.', line)
OrdinalPrefix(line) ==
    LET d == RunEnd(line, 1, Digits)
    IN  d > 1 /\ d <= Len(line) /\ line[d] = "."

\* a slip of lines 218-219: only bulleted and numbered lines are admitted
LooksLikeTask_MarkedOnly(line) ==
    \/ startswith(line, <<"-">>)
    \/ startswith(line, <<BULLET>>)
    \/ startswith(line, <<"*">>)
    \/ RunEnd(line, 1, Digits) > 1 /\ RunEnd(line, 1, Digits) <= Len(line)
          /\ line[RunEnd(line, 1, Digits)] = "."

\* the test of lines 218-219
LooksLikeTask(line) ==
    \/ startswith(line, <<"-">>)
    \/ startswith(line, <<BULLET>>)
    \/ startswith(line, <<"*">>)
    \/ OrdinalPrefix(line)
    \/ \E k \in 1..Min(PrefixLen, Len(line)) : IsAlnum(line[k])

\* clean_line of lines 223-225
CleanLine(line) ==
    LET c == strip(lstrip(line, BulletChars))
    IN  IF startswith(c, <<".">>) THEN strip(Tail(c)) ELSE c

\* a slip of line 234: the separators are not removed
DescriptionBefore_KeepsSeparators(clean_line, start) ==
    strip(Slice(clean_line, 1, start - 1))

\* a slip of line 234: the strip() after rstrip('-:') is left out
DescriptionBefore_NoFinalStrip(clean_line, start) ==
    rstrip(strip(Slice(clean_line, 1, start - 1)), {"-", ":"})

\* task_description of lines 232-234, for a time match that starts at start
DescriptionBefore(clean_line, start) ==
    strip(rstrip(strip(Slice(clean_line, 1, start - 1)), Separators))

\* a slip of line 243: the description is stored as the raw line
TaskRecord_RawIsDescription(task_description, time_spent, line) ==
    [description |-> task_description, time_spent |-> time_spent,
     raw_line |-> task_description]

\* the record appended at lines 240-244
TaskRecord(task_description, time_spent, line) ==
    [description |-> task_description, time_spent |-> time_spent, raw_line |-> line]

\* a slip of lines 228-234: the time text is cut out of the line and what
\* stands behind it stays in the description
ParseLine_KeepsTextAfterTime(line, time_patterns) ==
    IF Len(line) < MinLineLen THEN <<>>
    ELSE IF ~LooksLikeTask(line) THEN <<>>
    ELSE LET clean_line == CleanLine(line)
             time_match == time_regex_search(clean_line, time_patterns)
             time_spent == IF time_match /= None
                           THEN Some(Slice(clean_line, time_match[1].start, time_match[1].end - 1))
                           ELSE None
             task_description ==
                 IF time_match /= None
                 THEN strip(DescriptionBefore(clean_line, time_match[1].start)
                            \o Slice(clean_line, time_match[1].end, Len(clean_line)))
                 ELSE clean_line
         IN  IF task_description /= <<>>
             THEN <<TaskRecord(task_description, time_spent, line)>>
             ELSE <<>>

\* the body of the loop over lines (212-244): the records one line adds
ParseLine(line, time_patterns) ==
    IF Len(line) < MinLineLen THEN <<>>
    ELSE IF ~LooksLikeTask(line) THEN <<>>
    ELSE LET clean_line == CleanLine(line)
             time_match == time_regex_search(clean_line, time_patterns)
             time_spent == IF time_match /= None
                           THEN Some(Slice(clean_line, time_match[1].start, time_match[1].end - 1))
                           ELSE None
             task_description == IF time_match /= None
                                 THEN DescriptionBefore(clean_line, time_match[1].start)
                                 ELSE clean_line
         IN  IF task_description /= <<>>
             THEN <<TaskRecord(task_description, time_spent, line)>>
             ELSE <<>>

RECURSIVE ParseLines(_, _)
\* for line in lines: ...
ParseLines(lines, time_patterns) ==
    IF lines = <<>> THEN <<>>
    ELSE ParseLine(Head(lines), time_patterns) \o ParseLines(Tail(lines), time_patterns)

_parse_eod_tasks(content, time_patterns) ==
    ParseLines(StrippedLines(content), time_patterns)

(***************************************************************************)
(* The configuration (config['parsing']) and the literals of the source.   *)
(***************************************************************************)
KW_EOD ==
    <<"E", "O", "D">>

KW_EndOfDay ==
    <<"E", "n", "d", " ", "o", "f", " ", "D", "a", "y">>

KW_DailySummary ==
    <<"D", "a", "i", "l", "y", " ", "S", "u", "m", "m", "a", "r", "y">>

KW_TaskSummary ==
    <<"T", "a", "s", "k", " ", "S", "u", "m", "m", "a", "r", "y">>

\* '\\d+\\s*min'
P_min == [sep |-> <<>>, unit |-> <<"m", "i", "n">>, opt |-> <<>>]

\* '\\d+:\\d+\\s*hrs?'
P_colon_hrs == [sep |-> <<":">>, unit |-> <<"h", "r">>, opt |-> <<"s">>]

\* '\\d+\\.\\d+\\s*hrs?'
P_dot_hrs == [sep |-> <<".">>, unit |-> <<"h", "r">>, opt |-> <<"s">>]

\* '\\d+\\s*hrs?'
P_hrs == [sep |-> <<>>, unit |-> <<"h", "r">>, opt |-> <<"s">>]

\* '\\d+\\s*m', a fragment a configuration may put before '\\d+\\s*min': both
\* then match at the same position
P_m == [sep |-> <<>>, unit |-> <<"m">>, opt |-> <<>>]

DefaultTimePatterns == <<P_min, P_colon_hrs, P_dot_hrs, P_hrs>>

\* the configuration of test_eod_parsing
TestConfig ==
    [parsing |-> [eod_keywords |-> <<KW_EOD, KW_EndOfDay, KW_DailySummary, KW_TaskSummary>>,
                  time_patterns |-> DefaultTimePatterns]]

\* keywords ["EOD"] with the default time patterns
EodOnlyConfig ==
    [parsing |-> [eod_keywords |-> <<KW_EOD>>, time_patterns |-> DefaultTimePatterns]]

\* a configuration whose time patterns overlap: '\\d+\\s*m' is declared first
OverlapConfig ==
    [parsing |-> [eod_keywords |-> <<KW_DailySummary, KW_EOD>>,
                  time_patterns |-> <<P_m, P_min, P_colon_hrs, P_dot_hrs, P_hrs>>]]

\* end_markers of line 181
end_markers ==
    <<<<"B", "e", "s", "t", " ", "r", "e", "g", "a", "r", "d", "s">>,
      <<"T", "h", "a", "n", "k", "s">>,
      <<"R", "e", "g", "a", "r", "d", "s">>,
      <<"S", "i", "n", "c", "e", "r", "e", "l", "y">>,
      <<"\n", "\n", "\n">>,
      <<"F", "r", "o", "m", ":">>,
      <<"S", "e", "n", "t", ":">>>>


(***************************************************************************)
(* EODExtractor.extract_eod_section                                        *)
(***************************************************************************)
\* '.*?:' tried at p: the index of the first ':' at or after p that no newline
\* precedes ('.' does not match a newline: re.DOTALL is not set), 0 when none
ColonAfter(s, p) ==
    LET j == Leftmost({k \in p..Len(s) : s[k] = ":" \/ s[k] = NL})
    IN  IF j > 0 /\ s[j] = ":" THEN j ELSE 0

RECURSIVE FirstKeyword(_, _, _, _)
\* '(k1|k2|...).*?:' tried at position i: the first keyword, in the order of the
\* list, that matches at i and is followed by a colon on the same line
FirstKeyword(s, i, eod_keywords, k) ==
    IF k > Len(eod_keywords) THEN 0
    ELSE IF /\ MatchesAtCI(s, i, eod_keywords[k])
            /\ ColonAfter(s, i + Len(eod_keywords[k])) > 0
         THEN k
    ELSE FirstKeyword(s, i, eod_keywords, k + 1)

\* the match of eod_regex at position i, where keyword k matches
EodMatch(s, i, keyword) ==
    [start |-> i,
     group1_end |-> i + Len(keyword),
     end |-> ColonAfter(s, i + Len(keyword)) + 1]

\* eod_regex.search(email_body): the positions are tried from the left; start is
\* the index of the first character of the match, group1_end the index just
\* past group 1, end the index just past the match
eod_regex_search(body, eod_keywords) ==
    LET i == Leftmost({k \in 1..Len(body) :
                          FirstKeyword(body, k, eod_keywords, 1) > 0})
    IN  IF i = 0 THEN None
        ELSE Some(EodMatch(body, i, eod_keywords[FirstKeyword(body, i, eod_keywords, 1)]))

\* a slip of line 183: re.IGNORECASE is left out
MarkerAt_CaseSensitive(s, i) ==
    \E m \in DOMAIN end_markers : startswith(Slice(s, i, Len(s)), end_markers[m])

\* one alternative of end_regex matches at position i
MarkerAt(s, i) == \E m \in DOMAIN end_markers : MatchesAtCI(s, i, end_markers[m])

\* end_regex.search(eod_content): the positions are tried from the left
end_regex_search(content) ==
    LET i == Leftmost({k \in 1..Len(content) : MarkerAt(content, k)})
    IN  IF i = 0 THEN None ELSE Some([start |-> i])

\* eod_content of lines 176-187: the text after the header match, cut at the
\* first end marker
SectionContent(body, eod_start) ==
    LET rest == Slice(body, eod_start, Len(body))
        end_match == end_regex_search(rest)
    IN  IF end_match /= None THEN Slice(rest, 1, end_match[1].start - 1) ELSE rest

\* the dictionary returned at lines 195-199
Section(header, task_list, content) ==
    [section_header |-> header, tasks |-> task_list, raw_content |-> strip(content)]

\* a slip of lines 192-193: the test for an empty task list is not made
SectionResult_KeepsEmpty(header, content, time_patterns) ==
    Some(Section(header, _parse_eod_tasks(content, time_patterns), content))

\* lines 189-199: the tasks of the section body and the value returned
SectionResult(header, content, time_patterns) ==
    LET task_list == _parse_eod_tasks(content, time_patterns)
    IN  IF task_list = <<>> THEN None ELSE Some(Section(header, task_list, content))

\* the result for a header match: match.group(1) is the header, the body starts
\* at match.end()
ResultForMatch(body, match, time_patterns) ==
    SectionResult(Slice(body, match.start, match.group1_end - 1),
                  SectionContent(body, match.end),
                  time_patterns)

\* a slip of lines 172-173: without a header match the whole text is parsed
extract_eod_section_NoEarlyReturn(body, cfg) ==
    LET match == eod_regex_search(body, cfg.parsing.eod_keywords)
    IN  IF match = None
        THEN SectionResult(<<>>, SectionContent(body, 1), cfg.parsing.time_patterns)
        ELSE ResultForMatch(body, match[1], cfg.parsing.time_patterns)

extract_eod_section(body, cfg) ==
    LET match == eod_regex_search(body, cfg.parsing.eod_keywords)
    IN  IF match = None THEN None
        ELSE ResultForMatch(body, match[1], cfg.parsing.time_patterns)

(***************************************************************************)
(* Inputs.  A message body (or a section body) is a seed text followed by  *)
(* at most MaxFrags fragments, so that headers, terminators, bullet lines  *)
(* and durations meet in every order.                                      *)
(***************************************************************************)
MaxFrags == 3

\* fragments are appended to a section body of at most this many characters
MaxContentLen == 60

\* the body of the scenario of demo_eod_extraction, cut to two tasks
ScenarioBody ==
    <<"E", "O", "D", ":", "\n", "-", " ", "C", "h", "e", "c", "k", "i", "n",
      "g", " ", "t", "r", "a", "c", "k", "e", "r", " ", "a", "n", "d", " ",
      "t", "i", "c", "k", "e", "t", "s", "-", "2", "0", " ", "m", "i", "n",
      "\n", "-", " ", "T", "e", "a", "m", " ", "m", "e", "e", "t", "i", "n",
      "g", " ", "a", "n", "d", " ", "d", "i", "s", "c", "u", "s", "s", "i",
      "o", "n", "-", "3", "0", " ", "m", "i", "n", "\n", "\n", "T", "h", "a",
      "n", "k", "s", ",", "\n", "J", "o", "h", "n">>

HeaderAndTask ==
    <<"E", "O", "D", ":", "\n", "-", " ", "F", "i", "x", " ", "b", "u", "g",
      "-", "2", "0", " ", "m", "i", "n", "\n", "\n">>

KeywordLineWithoutColon ==
    <<"E", "O", "D", " ", "r", "e", "p", "o", "r", "t", "\n">>

BodySeeds == {<<>>, ScenarioBody, HeaderAndTask, KeywordLineWithoutColon}

BodyFrags ==
    {<<"E", "O", "D">>,
     <<"d", "a", "i", "l", "y", " ", "s", "u", "m", "m", "a", "r", "y">>,
     <<":">>,
     <<"\n">>,
     <<"-", " ", "R", "e", "v", "i", "e", "w", " ", "1", ".", "5", " ", "h", "r", "s">>,
     <<"T", "h", "a", "n", "k", "s">>,
     <<"f", "r", "o", "m", ":">>}

BulletTask ==
    <<"-", " ", "F", "i", "x", " ", "b", "u", "g">>

IndentedTaskLine ==
    <<" ", " ", "-", " ", "C", "a", "l", "l", " ", "c", "l", "i", "e", "n",
      "t", " ", "-", " ", "2", " ", "h", "r", "s", " ", " ", "\n">>

\* the section of sample_email in test_eod_parsing, from behind 'EOD:' up to
\* 'Best regards'
TestEmailSection ==
    <<"\n", "-", " ", "C", "h", "e", "c", "k", "i", "n", "g", " ", "t", "r",
      "a", "c", "k", "e", "r", " ", "a", "n", "d", " ", "t", "i", "c", "k",
      "e", "t", "s", "-", "2", "0", " ", "m", "i", "n", "\n", "-", " ", "T",
      "e", "a", "m", " ", "m", "e", "e", "t", "i", "n", "g", " ", "a", "n",
      "d", " ", "d", "i", "s", "c", "u", "s", "s", "i", "o", "n", "-", "3",
      "0", " ", "m", "i", "n", "\n", "-", " ", "T", "L", "S", " ", "#", "4",
      "9", "1", "7", "2", " ", "-", " ", "T", "L", "S", " ", "E", "r", "r",
      "o", "r", "-", " ", "0", "1", ":", "2", "5", " ", "h", "r", "s", "\n",
      "-", " ", "D", "i", "s", "c", "u", "s", "s", "i", "o", "n", " ", "w",
      "i", "t", "h", " ", "R", "i", "t", "u", " ", "r", "e", "g", "a", "r",
      "d", "i", "n", "g", " ", "t", "h", "e", "i", "r", " ", "t", "i", "c",
      "k", "e", "t", "-", "4", "5", " ", "m", "i", "n", "\n", "-", " ", "T",
      "L", "S", "#", "6", "6", "6", "3", "8", "-", "R", "e", "q", "u", "i",
      "r", "e", " ", "t", "o", " ", "m", "o", "v", "e", " ", "T", "L", "S",
      " ", "p", "r", "o", "j", "e", "c", "t", " ", "f", "r", "o", "m", " ",
      "D", "C", "P", "L", " ", "f", "r", "a", "m", "e", "w", "o", "r", "k",
      " ", "t", "o", " ", "D", "F", "r", "a", "m", "e", "w", "o", "r", "k",
      "-", "0", "4", ":", "2", "0", " ", "h", "r", "s", "\n", "-", " ", "D",
      "i", "s", "c", "u", "s", "s", " ", "w", "i", "t", "h", " ", "A", "a",
      "y", "u", "s", "h", " ", "r", "e", "g", "a", "r", "d", "i", "n", "g",
      " ", "#", "6", "6", "9", "1", "2", "-", "2", "0", " ", "m", "i", "n",
      "\n", "-", " ", "T", "L", "S", " ", "#", "6", "6", "9", "5", "1", "-",
      "S", "y", "s", "t", "e", "m", " ", "P", "e", "r", "f", "o", "r", "m",
      "a", "n", "c", "e", " ", "O", "p", "t", "i", "m", "i", "z", "a", "t",
      "i", "o", "n", " ", "-", " ", "D", "O", " ", "N", "O", "T", " ", "u",
      "s", "e", " ", "l", "o", "c", "k", " ", "h", "i", "n", "t", "s", " ",
      "s", "u", "c", "h", " ", "a", "s", " ", "N", "O", "L", "O", "C", "K",
      "/", " ", "R", "O", "W", "L", "O", "C", "K", "-", "0", "2", ":", "2",
      "0", " ", "h", "r", "s", "\n", "\n">>

\* a section between two rules: a bulleted task, a numbered task, a line
\* too short to be a task and lines without a letter or digit
RuledSection ==
    <<"\n", "=", "=", "=", "=", "=", "=", "=", "=", "=", "=", "\n", "-", " ",
      "F", "i", "x", " ", "l", "o", "g", "i", "n", " ", "b", "u", "g", " ",
      "-", " ", "2", " ", "h", "r", "s", "\n", " ", " ", "(", ".", ".", ".",
      ")", " ", " ", "\n", "2", ".", " ", "R", "e", "v", "i", "e", "w", " ",
      "n", "o", "t", "e", "s", "\n", "o", "k", "\n", "=", "=", "=", "=", "=",
      "=", "=", "=", "=", "=", "\n">>

ContentSeeds == {<<>>, BulletTask, IndentedTaskLine, TestEmailSection, RuledSection}

ContentFrags ==
    {<<"-", " ">>,
     <<"-">>,
     <<" ">>,
     <<":">>,
     <<"\n">>,
     <<"*">>,
     <<"u2022">>,
     <<".">>,
     <<"t", "a", "s", "k">>,
     <<"2", "0", " ", "m", "i", "n">>,
     <<"1", ".", "5", " ", "h", "r", "s">>}


(***************************************************************************)
(* The calls.  Spec: a message body arrives and extract_eod_section is     *)
(* called on it (the loop body of extract_eod_from_date_range).            *)
(* SpecParse: _parse_eod_tasks is called on a section body.                *)
(* SpecCalls: one extractor handles the messages of a mailbox one after    *)
(* the other, the same message possibly more than once; calls is the       *)
(* sequence of (body, result) pairs of the calls made so far.              *)
(***************************************************************************)
Init ==
    /\ config \in {TestConfig, EodOnlyConfig}
    /\ email_body \in BodySeeds
    /\ result = None
    /\ eod_content = <<>>
    /\ tasks = <<>>
    /\ calls = <<>>
    /\ appended = 0
    /\ pc = "compose"

\* the mail store holds one more piece of the message text
AppendToBody(f) ==
    /\ pc = "compose"
    /\ appended < MaxFrags
    /\ email_body' = email_body \o f
    /\ appended' = appended + 1
    /\ UNCHANGED <<config, result, eod_content, tasks, calls, pc>>

\* eod_section = self.extract_eod_section(body, subject)
ExtractEodSection ==
    /\ pc = "compose"
    /\ result' = extract_eod_section(email_body, config)
    /\ pc' = "done"
    /\ UNCHANGED <<config, email_body, eod_content, tasks, calls, appended>>

Next ==
    \/ \E f \in BodyFrags : AppendToBody(f)
    \/ ExtractEodSection

Spec == Init /\ [][Next]_vars

InitParse ==
    /\ config \in {TestConfig, OverlapConfig}
    /\ eod_content \in ContentSeeds
    /\ tasks = <<>>
    /\ email_body = <<>>
    /\ result = None
    /\ calls = <<>>
    /\ appended = 0
    /\ pc = "compose"

AppendToContent(f) ==
    /\ pc = "compose"
    /\ appended < MaxFrags
    /\ Len(eod_content) + Len(f) <= MaxContentLen
    /\ eod_content' = eod_content \o f
    /\ appended' = appended + 1
    /\ UNCHANGED <<config, email_body, result, tasks, calls, pc>>

\* tasks = self._parse_eod_tasks(eod_content, time_patterns)
ParseEodTasks ==
    /\ pc = "compose"
    /\ tasks' = _parse_eod_tasks(eod_content, config.parsing.time_patterns)
    /\ pc' = "done"
    /\ UNCHANGED <<config, email_body, result, eod_content, calls, appended>>

NextParse ==
    \/ \E f \in ContentFrags : AppendToContent(f)
    \/ ParseEodTasks

SpecParse == InitParse /\ [][NextParse]_vars

MaxCalls == 3

\* the messages fetch_email_content can hand to the loop
Mailbox == BodySeeds

InitCalls ==
    /\ config \in {TestConfig, EodOnlyConfig}
    /\ email_body \in Mailbox
    /\ result = None
    /\ calls = <<>>
    /\ eod_content = <<>>
    /\ tasks = <<>>
    /\ appended = 0
    /\ pc = "fetched"

\* email_data = self.fetch_email_content(email_id) of the next iteration
FetchEmailContent(m) ==
    /\ pc = "done"
    /\ Len(calls) < MaxCalls
    /\ email_body' = m
    /\ pc' = "fetched"
    /\ UNCHANGED <<config, result, eod_content, tasks, calls, appended>>

\* a parser whose task list outlives the call: the tasks of the previous
\* section are still in the list when the next section is parsed
ExtractFromEmail_SharedTaskList ==
    /\ pc = "fetched"
    /\ result' =
          LET r == extract_eod_section(email_body, config)
              earlier == IF result = None THEN <<>> ELSE result[1].tasks
          IN  IF r = None THEN None
              ELSE Some([r[1] EXCEPT !.tasks = earlier \o @])
    /\ calls' = Append(calls, [body |-> email_body, result |-> result'])
    /\ pc' = "done"
    /\ UNCHANGED <<config, email_body, eod_content, tasks, appended>>

\* eod_section = self.extract_eod_section(body, subject), on the extractor
\* that made the earlier calls
ExtractFromEmail ==
    /\ pc = "fetched"
    /\ result' = extract_eod_section(email_body, config)
    /\ calls' = Append(calls, [body |-> email_body, result |-> result'])
    /\ pc' = "done"
    /\ UNCHANGED <<config, email_body, eod_content, tasks, appended>>

NextCalls ==
    \/ \E m \in Mailbox : FetchEmailContent(m)
    \/ ExtractFromEmail

SpecCalls == InitCalls /\ [][NextCalls]_vars

(***************************************************************************)
(* Properties.                                                             *)
(***************************************************************************)
Called == pc = "done"

\* lit occurs somewhere in s, compared case-insensitively
OccursCI(lit, s) == \E i \in 1..Len(s) : MatchesAtCI(s, i, lit)

SeqSet(s) == {s[i] : i \in DOMAIN s}

NoKeywordOccurs ==
    \A k \in DOMAIN config.parsing.eod_keywords :
        ~OccursCI(config.parsing.eod_keywords[k], email_body)

\* C1: when no configured keyword occurs anywhere in the message text (compared
\* case-insensitively), extract_eod_section returns None.
C1_NoKeywordNoSection == Called => (result = None \/ ~NoKeywordOccurs)

\* a text without any keyword that nevertheless holds a colon and a line the
\* task parser would accept
C1_Witness ==
    /\ Called
    /\ NoKeywordOccurs
    /\ \E i \in 1..Len(email_body) : email_body[i] = ":"
    /\ _parse_eod_tasks(email_body, config.parsing.time_patterns) /= <<>>
    /\ result = None

\* the header match of the call on email_body
HeaderMatch == eod_regex_search(email_body, config.parsing.eod_keywords)

\* the text after the header match, up to the end of the message
AfterHeader == Slice(email_body, HeaderMatch[1].end, Len(email_body))

\* C3: extract_eod_section never returns a section with an empty task list; a
\* matched header whose body is empty, whitespace-only or cut down to nothing
\* by a terminator gives None.
C3_NoEmptySection ==
    (Called /\ result /= None) =>
        /\ result[1].tasks /= <<>>
        /\ ~(/\ HeaderMatch /= None
             /\ strip(SectionContent(email_body, HeaderMatch[1].end)) = <<>>)

\* a header is matched, the body after it is not empty, the terminator leaves
\* nothing of it, and the call returns None
C3_Witness ==
    /\ Called
    /\ result = None
    /\ HeaderMatch /= None
    /\ LET rest == AfterHeader
       IN  rest /= <<>> /\ MarkerAt(lstrip(rest, Whitespace), 1)

\* the first colon at or after position p, whatever line it is on (0 when none)
ColonAnywhereAfter(s, p) == Leftmost({k \in p..Len(s) : s[k] = ":"})

\* the earliest occurrence of any configured keyword (0 when none)
EarliestKeyword ==
    Leftmost({i \in 1..Len(email_body) :
                 \E k \in DOMAIN config.parsing.eod_keywords :
                     MatchesAtCI(email_body, i, config.parsing.eod_keywords[k])})

\* C4: the header is anchored at the earliest occurrence of any keyword and runs
\* through the first colon after it, also when that colon is on a later line;
\* the section body begins right after that colon, so whenever that body holds
\* tasks the call returns the section made of it.
C4_HeaderAtEarliestKeyword ==
    Called =>
        LET colon == ColonAnywhereAfter(email_body, EarliestKeyword)
            content == SectionContent(email_body, colon + 1)
        IN  (/\ EarliestKeyword > 0
             /\ colon > 0
             /\ _parse_eod_tasks(content, config.parsing.time_patterns) /= <<>>)
            => /\ result /= None
               /\ result[1].raw_content = strip(content)

\* the positions of s where a terminator marker occurs
MarkerPositions(s) ==
    {i \in 1..Len(s) : \E m \in DOMAIN end_markers : MatchesAtCI(s, i, end_markers[m])}

HoldsMarker(s) == \E m \in DOMAIN end_markers : OccursCI(end_markers[m], s)

\* C7: the section body is cut at the earliest terminator marker after the
\* header (textual markers compared case-insensitively): neither the returned
\* raw content nor any task's raw line holds a marker, and without a marker the
\* body runs to the end of the text.
C7_CutAtEarliestMarker ==
    (Called /\ result /= None) =>
        LET rest == AfterHeader
            M == MarkerPositions(rest)
        IN  /\ ~HoldsMarker(result[1].raw_content)
            /\ \A n \in DOMAIN result[1].tasks : ~HoldsMarker(result[1].tasks[n].raw_line)
            /\ M = {} => result[1].raw_content = strip(rest)
            /\ M /= {} => result[1].raw_content = strip(Slice(rest, 1, Leftmost(M) - 1))

\* a section is returned whose body was cut at a marker written in another case
\* than the one of end_markers, with text left behind the marker
C7_Witness ==
    /\ Called
    /\ result /= None
    /\ LET rest == AfterHeader
           M == MarkerPositions(rest)
       IN  /\ M /= {}
           /\ ~MarkerAt_CaseSensitive(rest, Leftmost(M))
           /\ Leftmost(M) + 5 <= Len(rest)

C8_Description1 ==
    <<"C", "h", "e", "c", "k", "i", "n", "g", " ", "t", "r", "a", "c", "k", "e", "r", " ", "a", "n", "d", " ", "t", "i", "c", "k", "e", "t", "s">>

C8_Description2 ==
    <<"T", "e", "a", "m", " ", "m", "e", "e", "t", "i", "n", "g", " ", "a", "n", "d", " ", "d", "i", "s", "c", "u", "s", "s", "i", "o", "n">>

C8_Content ==
    <<"-", " ", "C", "h", "e", "c", "k", "i", "n", "g", " ", "t", "r", "a",
      "c", "k", "e", "r", " ", "a", "n", "d", " ", "t", "i", "c", "k", "e",
      "t", "s", "-", "2", "0", " ", "m", "i", "n", "\n", "-", " ", "T", "e",
      "a", "m", " ", "m", "e", "e", "t", "i", "n", "g", " ", "a", "n", "d",
      " ", "d", "i", "s", "c", "u", "s", "s", "i", "o", "n", "-", "3", "0",
      " ", "m", "i", "n">>

\* the scenario: ScenarioBody with keywords ["EOD"] and the default patterns
C8_Scenario ==
    /\ Called
    /\ email_body = ScenarioBody
    /\ config = EodOnlyConfig

C8_TasksAndContent ==
    /\ result /= None
    /\ Len(result[1].tasks) = 2
    /\ result[1].tasks[1].description = C8_Description1
    /\ result[1].tasks[1].time_spent = Some(<<"2", "0", " ", "m", "i", "n">>)
    /\ result[1].tasks[2].description = C8_Description2
    /\ result[1].tasks[2].time_spent = Some(<<"3", "0", " ", "m", "i", "n">>)
    /\ result[1].raw_content = C8_Content

\* C8 as amended: for the scenario body the section header is "EOD" (the
\* matched keyword, without the colon), the tasks are exactly the two records
\* of the scenario, in order, and the content stops before "Thanks,".
C8_ScenarioResult ==
    C8_Scenario =>
        /\ C8_TasksAndContent
        /\ result[1].section_header = <<"E", "O", "D">>

\* C8 as stated: the same, with the section header "EOD:".
C8_ScenarioResult_AsStated ==
    C8_Scenario =>
        /\ C8_TasksAndContent
        /\ result[1].section_header = <<"E", "O", "D", ":">>

C8_Witness == C8_Scenario /\ result /= None

(***************************************************************************)
(* Properties of _parse_eod_tasks (SpecParse).                             *)
(***************************************************************************)
TimePatterns == config.parsing.time_patterns

\* the physical lines of the section body, untrimmed
ContentLines == split(eod_content)

\* the description lines 228-237 give a trimmed line
DescriptionOf(line) ==
    LET clean_line == CleanLine(line)
        time_match == time_regex_search(clean_line, TimePatterns)
    IN  IF time_match /= None
        THEN DescriptionBefore(clean_line, time_match[1].start)
        ELSE clean_line

\* C2: every record has a description that is not empty and has no leading or
\* trailing whitespace; a line whose description is empty after the bullet and
\* time tokens are stripped gives no record.
C2_DescriptionNonEmptyTrimmed ==
    Called =>
        /\ \A n \in DOMAIN tasks :
              /\ tasks[n].description /= <<>>
              /\ Head(tasks[n].description) \notin Whitespace
              /\ tasks[n].description[Len(tasks[n].description)] \notin Whitespace
        /\ LET lines == ContentLines
           IN  \A k \in DOMAIN lines :
                  DescriptionOf(strip(lines[k])) = <<>>
                  => \A n \in DOMAIN tasks : tasks[n].raw_line /= strip(lines[k])

\* a line long enough and shaped like a task whose description is empty once
\* bullet and time are stripped, next to a line that does give a record
C2_Witness ==
    /\ Called
    /\ tasks /= <<>>
    /\ \E k \in DOMAIN ContentLines :
          /\ Len(strip(ContentLines[k])) >= MinLineLen
          /\ LooksLikeTask(strip(ContentLines[k]))
          /\ DescriptionOf(strip(ContentLines[k])) = <<>>

\* every match of a time pattern in a cleaned line: <<start, pattern index>>
TimeMatches(clean_line) ==
    {m \in (1..Len(clean_line)) \X (DOMAIN TimePatterns) :
        PatternMatchEnd(clean_line, m[1], TimePatterns[m[2]]) > 0}

\* the match that starts leftmost, the first declared pattern among equals
LeftmostFirstDeclared(M) ==
    CHOOSE m \in M : \A o \in M : m[1] < o[1] \/ (m[1] = o[1] /\ m[2] <= o[2])

MatchedText(clean_line, m) ==
    Slice(clean_line, m[1], PatternMatchEnd(clean_line, m[1], TimePatterns[m[2]]) - 1)

\* C5: in a cleaned line with several time matches, time_spent is the match that
\* starts leftmost (the first declared pattern at equal starts), no later match
\* is used, and the description is a piece of the text before that match; a
\* record without time_spent comes from a line without any match.
C5_LeftmostTimeMatch ==
    Called =>
        \A n \in DOMAIN tasks :
            LET clean_line == CleanLine(tasks[n].raw_line)
                M == TimeMatches(clean_line)
            IN  IF tasks[n].time_spent = None THEN M = {}
                ELSE /\ M /= {}
                     /\ tasks[n].time_spent = Some(MatchedText(clean_line, LeftmostFirstDeclared(M)))
                     /\ \E a \in 1..(LeftmostFirstDeclared(M)[1] - 1) :
                            \E b \in a..(LeftmostFirstDeclared(M)[1] - 1) :
                                tasks[n].description = Slice(clean_line, a, b)

\* a record from a line where two patterns match at the leftmost start, with
\* different texts, and another match starts behind the one chosen
C5_Witness ==
    /\ Called
    /\ \E n \in DOMAIN tasks :
          LET clean_line == CleanLine(tasks[n].raw_line)
              M == TimeMatches(clean_line)
          IN  /\ tasks[n].time_spent /= None
              /\ \E m \in M, o \in M :
                    /\ m = LeftmostFirstDeclared(M)
                    /\ o[1] = m[1]
                    /\ MatchedText(clean_line, o) /= MatchedText(clean_line, m)
              /\ \E o \in M :
                    o[1] >= PatternMatchEnd(clean_line, LeftmostFirstDeclared(M)[1],
                                            TimePatterns[LeftmostFirstDeclared(M)[2]])

\* C6: when a time match is found, the description is the text before the match
\* with every trailing dash, colon and whitespace character removed, so it never
\* ends in '-', ':' or whitespace.
C6_DescriptionEndsClean ==
    Called =>
        \A n \in DOMAIN tasks :
            tasks[n].time_spent /= None =>
                LET clean_line == CleanLine(tasks[n].raw_line)
                    start == LeftmostFirstDeclared(TimeMatches(clean_line))[1]
                IN  /\ tasks[n].description =
                           rstrip(Slice(clean_line, 1, start - 1), Separators \cup Whitespace)
                    /\ tasks[n].description[Len(tasks[n].description)]
                           \notin (Separators \cup Whitespace)

\* C9 as amended: the raw_line of every record is a line of the section body
\* with its leading and trailing whitespace removed (bullet marker, separators
\* and time text kept).
C9_RawLineIsTrimmedLine ==
    Called =>
        \A n \in DOMAIN tasks :
            \E k \in DOMAIN ContentLines : tasks[n].raw_line = strip(ContentLines[k])

\* C9 as stated: the raw_line of every record is a line of the section body
\* exactly as it stands there, surrounding whitespace included.
C9_RawLineIsUntrimmedLine ==
    Called =>
        \A n \in DOMAIN tasks :
            \E k \in DOMAIN ContentLines : tasks[n].raw_line = ContentLines[k]

\* a record whose source line carries whitespace at both ends and a bullet
C9_Witness ==
    /\ Called
    /\ \E n \in DOMAIN tasks :
          \E k \in DOMAIN ContentLines :
              /\ tasks[n].raw_line = strip(ContentLines[k])
              /\ Head(ContentLines[k]) \in Whitespace
              /\ ContentLines[k][Len(ContentLines[k])] \in Whitespace
              /\ tasks[n].raw_line /= tasks[n].description

\* C10: a line made only of bullet marker characters and whitespace, of any
\* length, gives no record.
C10_BulletOnlyLineGivesNothing ==
    Called =>
        \A k \in DOMAIN ContentLines :
            SeqSet(ContentLines[k]) \subseteq (BulletChars \cup Whitespace)
            => \A n \in DOMAIN tasks : tasks[n].raw_line /= strip(ContentLines[k])

(***************************************************************************)
(* Repeated calls on one extractor.                                        *)
(***************************************************************************)
\* the calls made so far gave one result per message text
SameBodySameResult(log) ==
    \A i \in DOMAIN log : \A j \in DOMAIN log :
        log[i].body = log[j].body => log[i].result = log[j].result

expected_tasks == 7

\* every line of the section body, trimmed
TrimmedLines ==
    LET lines == ContentLines
    IN  [k \in DOMAIN lines |-> strip(lines[k])]

\* the raw lines of the records, in the order of the records
RawLines == [n \in DOMAIN tasks |-> tasks[n].raw_line]

\* a trimmed line starts with a bullet character, or with digits and a period,
\* or has an alphanumeric character among its first PrefixLen characters
Admitted(line) ==
    \/ Head(line) \in {"-", BULLET, "*"}
    \/ \E d \in 1..(Len(line) - 1) :
          /\ \A k \in 1..d : line[k] \in Digits
          /\ line[d + 1] = "."
    \/ \E k \in DOMAIN line : k <= PrefixLen /\ IsAlnum(line[k])

EmitsRecord(line) ==
    /\ Len(line) >= MinLineLen
    /\ Admitted(line)
    /\ DescriptionOf(line) /= <<>>

\* the text of line from position j to its end is one whole duration
DurationToEnd(line, j) ==
    \E p \in DOMAIN TimePatterns :
        PatternMatchEnd(line, j, TimePatterns[p]) = Len(line) + 1

\* a trimmed line of the form bullet, description, '-', duration: the
\* description starts at a with a letter or digit and not with a duration, the
\* dash stands at k and the duration runs from j to the end of the line;
\* whitespace may follow the bullet and the dash
BulletDescriptionDashDuration(line) ==
    /\ Len(line) >= 4
    /\ Head(line) \in {"-", BULLET, "*"}
    /\ \E a \in 2..(Len(line) - 2) :
          /\ \A i \in 2..(a - 1) : line[i] \in Whitespace
          /\ IsAlnum(line[a])
          /\ \A p \in DOMAIN TimePatterns : PatternMatchEnd(line, a, TimePatterns[p]) = 0
          /\ \E k \in (a + 1)..(Len(line) - 1) : \E j \in (k + 1)..Len(line) :
                /\ line[k] = "-"
                /\ \A i \in (k + 1)..(j - 1) : line[i] \in Whitespace
                /\ DurationToEnd(line, j)

\* the lines of the section body that are not blank, trimmed
NonBlankLines == SelectSeq(TrimmedLines, LAMBDA line : line /= <<>>)

TimeFirst(line) ==
    \E p \in DOMAIN TimePatterns :
        PatternMatchEnd(CleanLine(line), 1, TimePatterns[p]) > 0

\* where the first time match of a cleaned line ends (the index behind it)
FirstMatchEnd(clean_line) ==
    LET m == LeftmostFirstDeclared(TimeMatches(clean_line))
    IN  PatternMatchEnd(clean_line, m[1], TimePatterns[m[2]])

\* C13: the text behind the first time match of a line is in neither the
\* description nor the time_spent of a record (both are pieces of the cleaned
\* line up to the end of that match, in this order), so a line whose cleaned
\* text starts with a time match gives no record at all, and a section body
\* made only of such lines gives no tasks and so the absent result.
C13_TimeFirstLineGivesNothing ==
    Called =>
        LET trimmed == TrimmedLines
            nonblank == SelectSeq(trimmed, LAMBDA line : line /= <<>>)
        IN  /\ \A n \in DOMAIN tasks :
                  tasks[n].time_spent /= None =>
                     LET clean_line == CleanLine(tasks[n].raw_line)
                         e == FirstMatchEnd(clean_line)
                         c == e - Len(tasks[n].time_spent[1])
                         d == tasks[n].description
                     IN  /\ c >= 1
                         /\ tasks[n].time_spent[1] = Slice(clean_line, c, e - 1)
                         /\ \E a \in 1..c :
                               /\ a + Len(d) <= c
                               /\ d = Slice(clean_line, a, a + Len(d) - 1)
            /\ \A k \in DOMAIN trimmed :
                  TimeFirst(trimmed[k])
                  => \A n \in DOMAIN tasks : tasks[n].raw_line /= trimmed[k]
            /\ (\A k \in DOMAIN nonblank : TimeFirst(nonblank[k]))
                  => /\ tasks = <<>>
                     /\ SectionResult(KW_EOD, eod_content, TimePatterns) = None

\* a section body of one line, long enough and admitted, that starts with its
\* duration and goes on with a word: no record
C13_Witness ==
    /\ Called
    /\ tasks = <<>>
    /\ Len(NonBlankLines) = 1
    /\ Len(NonBlankLines[1]) >= MinLineLen
    /\ Admitted(NonBlankLines[1])
    /\ TimeFirst(NonBlankLines[1])
    /\ \E i \in FirstMatchEnd(CleanLine(NonBlankLines[1]))..Len(CleanLine(NonBlankLines[1])) :
          CleanLine(NonBlankLines[1])[i] \in LowerSet

====================
